---- MODULE Spec2Model ----
(***************************************************************************)
(* Model of scripts/terraform_aws_transformer.py: the normalisation and    *)
(* classification pipeline that turns parsed Terraform documents into a    *)
(* sorted, service-classified JSON envelope.                               *)
(*                                                                         *)
(* Python values are tagged records:                                       *)
(*   None  -> [t |-> "null"]          str   -> [t |-> "str",  v |-> s], s   *)
(*                                             the code points of the str  *)
(*   int   -> [t |-> "num", v |-> n]  bool  -> [t |-> "bool", v |-> b]       *)
(*   list  -> [t |-> "list", v |-> <<x1, ..., xn>>]   (tuple: t = "tuple")  *)
(*   dict  -> [t |-> "dict", v |-> << <<k1, x1>>, ..., <<kn, xn>> >>]       *)
(* A dict keeps its items in insertion order (as Python's dict and         *)
(* OrderedDict do) and its keys are distinct strings.                      *)
(***************************************************************************)
EXTENDS Integers, Sequences, FiniteSets, TLC

VARIABLES
    pc,               \* position of the running call
    arg,              \* arguments of the pure function under call
    ret,              \* what it returned
    files,            \* request_obj["files"]: the units still to be read
    include_ignored,  \* options.include_ignored
    all_resources,    \* transform_from_prompt's accumulators
    all_datas,
    all_ignored,
    out               \* the OutputEnvelope

vars == <<pc, arg, ret, files, include_ignored, all_resources, all_datas, all_ignored, out>>

-----------------------------------------------------------------------------
(* Python values *)

Null == [t |-> "null"]
Str(s) == [t |-> "str", v |-> s]
Num(n) == [t |-> "num", v |-> n]
Bool(b) == [t |-> "bool", v |-> b]
List(xs) == [t |-> "list", v |-> xs]
Dict(items) == [t |-> "dict", v |-> items]
Tuple(xs) == [t |-> "tuple", v |-> xs]

isdict(x) == x.t = "dict"
islist(x) == x.t = "list"
isstr(x) == x.t = "str"

\* Truthiness of a Python value (bool(x)).
Truthy(x) ==
    CASE x.t = "null" -> FALSE
      [] x.t = "str" -> Len(x.v) > 0
      [] x.t = "num" -> x.v /= 0
      [] x.t = "bool" -> x.v
      [] OTHER -> Len(x.v) > 0

\* d.keys() of a dict's item sequence.
Keys(items) == {items[i][1] : i \in 1..Len(items)}

\* d[k] for a key the dict has.
Get(items, k) == items[CHOOSE i \in 1..Len(items) : items[i][1] = k][2]

\* d.get(k), None when absent.
GetOrNull(items, k) == IF k \in Keys(items) THEN Get(items, k) ELSE Null

\* The items left after d.pop(k, None) for every k of ks.
Without(items, ks) == SelectSeq(items, LAMBDA kv : kv[1] \notin ks)

-----------------------------------------------------------------------------
(* Strings.  A str is the sequence of the code points of its characters,   *)
(* numbers of 0..1114111, so that ord, the comparison and the classes of    *)
(* characters are those of Python for every str.  S writes one from text.   *)

\* The printable ASCII characters but U+0060, in two runs of consecutive code
\* points: from U+0020 and from U+0061.
AsciiUpper == " !\"#$%&'()*+,-./0123456789:;<=>?@ABCDEFGHIJKLMNOPQRSTUVWXYZ[\\]^_"
AsciiLower == "abcdefghijklmnopqrstuvwxyz{|}~"

\* ord(c) of a character of the two runs.
Ord(c) ==
    IF \E i \in 1..Len(AsciiLower) : SubSeq(AsciiLower, i, i) = c
    THEN 96 + (CHOOSE i \in 1..Len(AsciiLower) : SubSeq(AsciiLower, i, i) = c)
    ELSE 31 + (CHOOSE i \in 1..Len(AsciiUpper) : SubSeq(AsciiUpper, i, i) = c)

\* The str of a text of such characters.
S(text) == [i \in 1..Len(text) |-> Ord(SubSeq(text, i, i))]

RECURSIVE StrLess(_, _)
\* a < b of two str: b goes on where a ends, or at the first place where they
\* differ the character of a has the smaller code point.
StrLess(a, b) ==
    IF Len(b) = 0 THEN FALSE
    ELSE IF Len(a) = 0 THEN TRUE
    ELSE IF a[1] = b[1] THEN StrLess(Tail(a), Tail(b))
    ELSE a[1] < b[1]

\* Tuples of strings compare lexicographically, element by element.
RECURSIVE TupleLess(_, _)
TupleLess(a, b) ==
    IF Len(b) = 0 THEN FALSE
    ELSE IF Len(a) = 0 THEN TRUE
    ELSE IF a[1] = b[1] THEN TupleLess(Tail(a), Tail(b))
    ELSE StrLess(a[1], b[1])

startswith(s, p) == Len(s) >= Len(p) /\ SubSeq(s, 1, Len(p)) = p

\* c.isspace() of the character of code point c, which is also what \s of a
\* str pattern matches: U+0009 to U+000D, U+001C to U+0020, U+0085, U+00A0,
\* U+1680, U+2000 to U+200A, U+2028, U+2029, U+202F, U+205F, U+3000.
IsSpace(c) ==
    c \in (9..13) \cup (28..32) \cup {133, 160, 5760} \cup (8192..8202)
          \cup {8232, 8233, 8239, 8287, 12288}

RECURSIVE lstrip(_)
lstrip(s) == IF Len(s) > 0 /\ IsSpace(s[1]) THEN lstrip(Tail(s)) ELSE s

RECURSIVE rstrip(_)
rstrip(s) ==
    IF Len(s) > 0 /\ IsSpace(s[Len(s)]) THEN rstrip(SubSeq(s, 1, Len(s) - 1)) ELSE s

strip(s) == rstrip(lstrip(s))

\* c in s, for a character c.
Contains(s, c) == \E i \in 1..Len(s) : s[i] = c

\* sorted(xs, key = ...), with keys[i] the key of xs[i], a tuple of strings: a
\* stable sort, so an element goes after the elements with a smaller key and
\* after the earlier elements with an equal key.
Sorted(xs, keys) ==
    LET n == Len(xs)
        pos(i) == 1 + Cardinality({j \in 1..n :
                        \/ TupleLess(keys[j], keys[i])
                        \/ (j < i /\ ~TupleLess(keys[i], keys[j]))})
    IN  [p \in 1..n |-> xs[CHOOSE i \in 1..n : pos(i) = p]]

-----------------------------------------------------------------------------
(* EXPR_RE and normalize_value *)

\* The text between "${" and the closing "}" of a stripped string.
ExprSpan(s) == LET t == strip(s) IN SubSeq(t, 3, Len(t) - 1)

\* A variant of EXPR_RE whose inner group is .* : it lets "}" into the span.
EXPR_RE_dotstar(s) ==
    LET t == strip(s)
    IN  /\ Len(t) >= 3
        /\ SubSeq(t, 1, 2) = S("${")
        /\ SubSeq(t, Len(t), Len(t)) = S("}")

\* EXPR_RE.match(s): optional whitespace, "${", a span with no "}", "}",
\* optional whitespace, end of string.
EXPR_RE(s) ==
    LET t == strip(s)
    IN  /\ Len(t) >= 3
        /\ SubSeq(t, 1, 2) = S("${")
        /\ SubSeq(t, Len(t), Len(t)) = S("}")
        /\ ~Contains(SubSeq(t, 3, Len(t) - 1), S("}")[1])

\* m.group("inner").strip()
Inner(s) == strip(ExprSpan(s))

\* key=lambda kv: kv[0], for every item.
ItemKeys(items) == [i \in 1..Len(items) |-> <<items[i][1]>>]

EXEC_KEYS == {S("provisioner"), S("connection")}

RECURSIVE normalize_value(_)
normalize_value(v) ==
    IF isdict(v) THEN
        LET items == Sorted(v.v, ItemKeys(v.v))
            kept == SelectSeq(items, LAMBDA kv : kv[1] \notin EXEC_KEYS)
        IN  Dict([i \in 1..Len(kept) |-> <<kept[i][1], normalize_value(kept[i][2])>>])
    ELSE IF islist(v) THEN
        List([i \in 1..Len(v.v) |-> normalize_value(v.v[i])])
    ELSE IF isstr(v) THEN
        IF EXPR_RE(v.v) THEN Dict(<< <<S("$expr"), Str(Inner(v.v))>> >>) ELSE v
    ELSE v

-----------------------------------------------------------------------------
(* Inputs of normalize_value: nested values up to MaxDepth levels. *)

MaxDepth == 2

ScalarValues == {Null, Num(2), Bool(TRUE)}

\* "${a}" with a tab before it, a newline and a carriage return inside the
\* braces and a newline after; and with U+2003 before and U+3000 after.
TabbedExpr == <<9>> \o S("${") \o <<10>> \o S("a") \o <<13>> \o S("}") \o <<10>>
WideSpacedExpr == <<8195>> \o S("${a}") \o <<12288>>

StringValues ==
    { Str(S("a")), Str(S("${a}")), Str(S(" ${ a } ")), Str(S("${${a}")), Str(S("${${a}}")),
      Str(S("x-${a}-y")), Str(S("${}")), Str(TabbedExpr), Str(WideSpacedExpr) }

AtomValues == ScalarValues \cup StringValues

NestKeys == {S("k"), S("$expr"), S("provisioner"), S("a")}

\* Keys outside ASCII: the character U+10FC80, a lone surrogate U+DBFF before
\* U+FF80 (json.loads lets one through), and U+E000. Python orders them
\* LoneKey, PrivateKey, AstralKey.
AstralKey == <<1113216>>
LoneKey == <<56319, 65408>>
PrivateKey == <<57344>>

RECURSIVE NestedValues(_)
NestedValues(d) ==
    IF d = 0 THEN AtomValues
    ELSE LET inner == NestedValues(d - 1)
         IN  inner
             \cup {List(<<x>>) : x \in inner}
             \cup {List(<<Str(S("${a}")), x>>) : x \in inner}
             \cup {Dict(<< <<k, x>> >>) : k \in NestKeys, x \in inner}
             \cup {Dict(<< <<k, x>>, <<S("b"), Str(S(" ${b}"))>> >>) : k \in NestKeys, x \in inner}
             \cup {Dict(<< <<AstralKey, x>>, <<LoneKey, x>>, <<PrivateKey, x>> >>) : x \in inner}

-----------------------------------------------------------------------------
(* normalize_value applied once, then to its own result *)

NoFiles == <<>>

InitNormalize ==
    /\ pc = "start"
    /\ arg \in NestedValues(MaxDepth)
    /\ ret = <<>>
    /\ files = NoFiles /\ include_ignored = FALSE
    /\ all_resources = <<>> /\ all_datas = <<>> /\ all_ignored = <<>>
    /\ out = Null

NormalizeOnce ==
    /\ pc = "start"
    /\ ret' = <<normalize_value(arg)>>
    /\ pc' = "once"
    /\ UNCHANGED <<arg, files, include_ignored, all_resources, all_datas, all_ignored, out>>

NormalizeTwice ==
    /\ pc = "once"
    /\ ret' = Append(ret, normalize_value(ret[1]))
    /\ pc' = "twice"
    /\ UNCHANGED <<arg, files, include_ignored, all_resources, all_datas, all_ignored, out>>

NextNormalize == NormalizeOnce \/ NormalizeTwice

SpecNormalize == InitNormalize /\ [][NextNormalize]_vars

\* C6: normalize_value is idempotent: applying it to its own result changes
\* nothing, for every nested value.
C6_Idempotent == pc = "twice" => ret[2] = ret[1]

\* A single-expression string with "${" inside its span was rewritten and a
\* mapping with a "$expr" key was normalised, both twice.
C6_Witness ==
    /\ pc = "twice"
    /\ arg = Dict(<< <<S("$expr"), Str(S("${${a}"))>>, <<S("b"), Str(S(" ${b}"))>> >>)
    /\ ret[1] = Dict(<< <<S("$expr"), Dict(<< <<S("$expr"), Str(S("${a"))>> >>)>>,
                        <<S("b"), Dict(<< <<S("$expr"), Str(S("b"))>> >>)>> >>)

\* C6, second case: the whitespace around and inside the braces is a tab, a
\* newline and a carriage return.
C6_WitnessSpace ==
    /\ pc = "twice"
    /\ arg = Str(TabbedExpr)
    /\ ret[1] = Dict(<< <<S("$expr"), Str(S("a"))>> >>)

\* C6, third case: keys outside ASCII were put in the order of their code
\* points.
C6_WitnessCodePoints ==
    /\ pc = "twice"
    /\ arg = Dict(<< <<AstralKey, Str(WideSpacedExpr)>>, <<LoneKey, Str(WideSpacedExpr)>>,
                     <<PrivateKey, Str(WideSpacedExpr)>> >>)
    /\ ret[1] = Dict(<< <<LoneKey, Dict(<< <<S("$expr"), Str(S("a"))>> >>)>>,
                        <<PrivateKey, Dict(<< <<S("$expr"), Str(S("a"))>> >>)>>,
                        <<AstralKey, Dict(<< <<S("$expr"), Str(S("a"))>> >>)>> >>)

-----------------------------------------------------------------------------
(* Service/type mapping *)

IAM_PREFIX == S("aws_iam_")
S3_PREFIX == S("aws_s3_")
RDS_PREFIXES == {S("aws_rds_"), S("aws_db_")}

VPC_TYPES ==
    { S("aws_vpc"), S("aws_vpc_dhcp_options"), S("aws_vpc_dhcp_options_association"),
      S("aws_subnet"), S("aws_route_table"), S("aws_route"),
      S("aws_main_route_table_association"), S("aws_route_table_association"),
      S("aws_network_acl"), S("aws_network_acl_rule"), S("aws_internet_gateway"),
      S("aws_nat_gateway"), S("aws_eip_association"), S("aws_vpc_endpoint"),
      S("aws_vpc_endpoint_service"), S("aws_vpc_peering_connection"),
      S("aws_vpc_peering_connection_accepter"), S("aws_flow_log"),
      S("aws_network_interface"), S("aws_network_interface_sg_attachment") }

EC2_TYPES ==
    { S("aws_instance"), S("aws_ami"), S("aws_ami_copy"), S("aws_ami_from_instance"),
      S("aws_ebs_volume"), S("aws_ebs_snapshot"), S("aws_volume_attachment"),
      S("aws_snapshot_create_volume_permission"), S("aws_key_pair"),
      S("aws_launch_template"), S("aws_placement_group"), S("aws_spot_fleet_request"),
      S("aws_eip") }

SERVICES_KEYS == <<S("ec2"), S("iam"), S("rds"), S("s3"), S("vpc")>>

service_for_type(t) ==
    IF startswith(t, IAM_PREFIX) THEN Str(S("iam"))
    ELSE IF startswith(t, S3_PREFIX) THEN Str(S("s3"))
    ELSE IF \E p \in RDS_PREFIXES : startswith(t, p) THEN Str(S("rds"))
    ELSE IF t \in VPC_TYPES THEN Str(S("vpc"))
    ELSE IF t \in EC2_TYPES THEN Str(S("ec2"))
    ELSE Null

-----------------------------------------------------------------------------
(* extract_meta and make_record *)

META_KEYS == {S("count"), S("for_each"), S("depends_on"), S("provider")}

_to_expr_or_val(x) ==
    IF isstr(x) /\ EXPR_RE(x.v) THEN Dict(<< <<S("$expr"), Str(Inner(x.v))>> >>) ELSE x

RECURSIVE Digits(_)
\* str(n) of an int: its decimal digits, after "-" when it is negative.
Digits(n) ==
    IF n < 0 THEN S("-") \o Digits(0 - n)
    ELSE IF n < 10 THEN S(SubSeq("0123456789", n + 1, n + 1))
    ELSE Digits(n \div 10) \o S(SubSeq("0123456789", (n % 10) + 1, (n % 10) + 1))

RECURSIVE Hex(_, _)
\* n in w lower-case hexadecimal digits.
Hex(n, w) ==
    IF w = 0 THEN <<>>
    ELSE Hex(n \div 16, w - 1) \o S(SubSeq("0123456789abcdef", (n % 16) + 1, (n % 16) + 1))

\* The ranges of the code points that str.isprintable refuses: the controls,
\* the separators other than the space, the format characters, the
\* surrogates, the private use and the unassigned code points (Unicode 14.0).
NonPrintable ==
    << <<0, 31>>, <<127, 160>>, <<173, 173>>, <<888, 889>>, <<896, 899>>, <<907, 907>>,
       <<909, 909>>, <<930, 930>>, <<1328, 1328>>, <<1367, 1368>>, <<1419, 1420>>, <<1424, 1424>>,
       <<1480, 1487>>, <<1515, 1518>>, <<1525, 1541>>, <<1564, 1564>>, <<1757, 1757>>, <<1806, 1807>>,
       <<1867, 1868>>, <<1970, 1983>>, <<2043, 2044>>, <<2094, 2095>>, <<2111, 2111>>, <<2140, 2141>>,
       <<2143, 2143>>, <<2155, 2159>>, <<2191, 2199>>, <<2274, 2274>>, <<2436, 2436>>, <<2445, 2446>>,
       <<2449, 2450>>, <<2473, 2473>>, <<2481, 2481>>, <<2483, 2485>>, <<2490, 2491>>, <<2501, 2502>>,
       <<2505, 2506>>, <<2511, 2518>>, <<2520, 2523>>, <<2526, 2526>>, <<2532, 2533>>, <<2559, 2560>>,
       <<2564, 2564>>, <<2571, 2574>>, <<2577, 2578>>, <<2601, 2601>>, <<2609, 2609>>, <<2612, 2612>>,
       <<2615, 2615>>, <<2618, 2619>>, <<2621, 2621>>, <<2627, 2630>>, <<2633, 2634>>, <<2638, 2640>>,
       <<2642, 2648>>, <<2653, 2653>>, <<2655, 2661>>, <<2679, 2688>>, <<2692, 2692>>, <<2702, 2702>>,
       <<2706, 2706>>, <<2729, 2729>>, <<2737, 2737>>, <<2740, 2740>>, <<2746, 2747>>, <<2758, 2758>>,
       <<2762, 2762>>, <<2766, 2767>>, <<2769, 2783>>, <<2788, 2789>>, <<2802, 2808>>, <<2816, 2816>>,
       <<2820, 2820>>, <<2829, 2830>>, <<2833, 2834>>, <<2857, 2857>>, <<2865, 2865>>, <<2868, 2868>>,
       <<2874, 2875>>, <<2885, 2886>>, <<2889, 2890>>, <<2894, 2900>>, <<2904, 2907>>, <<2910, 2910>>,
       <<2916, 2917>>, <<2936, 2945>>, <<2948, 2948>>, <<2955, 2957>>, <<2961, 2961>>, <<2966, 2968>>,
       <<2971, 2971>>, <<2973, 2973>>, <<2976, 2978>>, <<2981, 2983>>, <<2987, 2989>>, <<3002, 3005>>,
       <<3011, 3013>>, <<3017, 3017>>, <<3022, 3023>>, <<3025, 3030>>, <<3032, 3045>>, <<3067, 3071>>,
       <<3085, 3085>>, <<3089, 3089>>, <<3113, 3113>>, <<3130, 3131>>, <<3141, 3141>>, <<3145, 3145>>,
       <<3150, 3156>>, <<3159, 3159>>, <<3163, 3164>>, <<3166, 3167>>, <<3172, 3173>>, <<3184, 3190>>,
       <<3213, 3213>>, <<3217, 3217>>, <<3241, 3241>>, <<3252, 3252>>, <<3258, 3259>>, <<3269, 3269>>,
       <<3273, 3273>>, <<3278, 3284>>, <<3287, 3292>>, <<3295, 3295>>, <<3300, 3301>>, <<3312, 3312>>,
       <<3315, 3327>>, <<3341, 3341>>, <<3345, 3345>>, <<3397, 3397>>, <<3401, 3401>>, <<3408, 3411>>,
       <<3428, 3429>>, <<3456, 3456>>, <<3460, 3460>>, <<3479, 3481>>, <<3506, 3506>>, <<3516, 3516>>,
       <<3518, 3519>>, <<3527, 3529>>, <<3531, 3534>>, <<3541, 3541>>, <<3543, 3543>>, <<3552, 3557>>,
       <<3568, 3569>>, <<3573, 3584>>, <<3643, 3646>>, <<3676, 3712>>, <<3715, 3715>>, <<3717, 3717>>,
       <<3723, 3723>>, <<3748, 3748>>, <<3750, 3750>>, <<3774, 3775>>, <<3781, 3781>>, <<3783, 3783>>,
       <<3790, 3791>>, <<3802, 3803>>, <<3808, 3839>>, <<3912, 3912>>, <<3949, 3952>>, <<3992, 3992>>,
       <<4029, 4029>>, <<4045, 4045>>, <<4059, 4095>>, <<4294, 4294>>, <<4296, 4300>>, <<4302, 4303>>,
       <<4681, 4681>>, <<4686, 4687>>, <<4695, 4695>>, <<4697, 4697>>, <<4702, 4703>>, <<4745, 4745>>,
       <<4750, 4751>>, <<4785, 4785>>, <<4790, 4791>>, <<4799, 4799>>, <<4801, 4801>>, <<4806, 4807>>,
       <<4823, 4823>>, <<4881, 4881>>, <<4886, 4887>>, <<4955, 4956>>, <<4989, 4991>>, <<5018, 5023>>,
       <<5110, 5111>>, <<5118, 5119>>, <<5760, 5760>>, <<5789, 5791>>, <<5881, 5887>>, <<5910, 5918>>,
       <<5943, 5951>>, <<5972, 5983>>, <<5997, 5997>>, <<6001, 6001>>, <<6004, 6015>>, <<6110, 6111>>,
       <<6122, 6127>>, <<6138, 6143>>, <<6158, 6158>>, <<6170, 6175>>, <<6265, 6271>>, <<6315, 6319>>,
       <<6390, 6399>>, <<6431, 6431>>, <<6444, 6447>>, <<6460, 6463>>, <<6465, 6467>>, <<6510, 6511>>,
       <<6517, 6527>>, <<6572, 6575>>, <<6602, 6607>>, <<6619, 6621>>, <<6684, 6685>>, <<6751, 6751>>,
       <<6781, 6782>>, <<6794, 6799>>, <<6810, 6815>>, <<6830, 6831>>, <<6863, 6911>>, <<6989, 6991>>,
       <<7039, 7039>>, <<7156, 7163>>, <<7224, 7226>>, <<7242, 7244>>, <<7305, 7311>>, <<7355, 7356>>,
       <<7368, 7375>>, <<7419, 7423>>, <<7958, 7959>>, <<7966, 7967>>, <<8006, 8007>>, <<8014, 8015>>,
       <<8024, 8024>>, <<8026, 8026>>, <<8028, 8028>>, <<8030, 8030>>, <<8062, 8063>>, <<8117, 8117>>,
       <<8133, 8133>>, <<8148, 8149>>, <<8156, 8156>>, <<8176, 8177>>, <<8181, 8181>>, <<8191, 8207>>,
       <<8232, 8239>>, <<8287, 8303>>, <<8306, 8307>>, <<8335, 8335>>, <<8349, 8351>>, <<8385, 8399>>,
       <<8433, 8447>>, <<8588, 8591>>, <<9255, 9279>>, <<9291, 9311>>, <<11124, 11125>>, <<11158, 11158>>,
       <<11508, 11512>>, <<11558, 11558>>, <<11560, 11564>>, <<11566, 11567>>, <<11624, 11630>>, <<11633, 11646>>,
       <<11671, 11679>>, <<11687, 11687>>, <<11695, 11695>>, <<11703, 11703>>, <<11711, 11711>>, <<11719, 11719>>,
       <<11727, 11727>>, <<11735, 11735>>, <<11743, 11743>>, <<11870, 11903>>, <<11930, 11930>>, <<12020, 12031>>,
       <<12246, 12271>>, <<12284, 12288>>, <<12352, 12352>>, <<12439, 12440>>, <<12544, 12548>>, <<12592, 12592>>,
       <<12687, 12687>>, <<12772, 12783>>, <<12831, 12831>>, <<42125, 42127>>, <<42183, 42191>>, <<42540, 42559>>,
       <<42744, 42751>>, <<42955, 42959>>, <<42962, 42962>>, <<42964, 42964>>, <<42970, 42993>>, <<43053, 43055>>,
       <<43066, 43071>>, <<43128, 43135>>, <<43206, 43213>>, <<43226, 43231>>, <<43348, 43358>>, <<43389, 43391>>,
       <<43470, 43470>>, <<43482, 43485>>, <<43519, 43519>>, <<43575, 43583>>, <<43598, 43599>>, <<43610, 43611>>,
       <<43715, 43738>>, <<43767, 43776>>, <<43783, 43784>>, <<43791, 43792>>, <<43799, 43807>>, <<43815, 43815>>,
       <<43823, 43823>>, <<43884, 43887>>, <<44014, 44015>>, <<44026, 44031>>, <<55204, 55215>>, <<55239, 55242>>,
       <<55292, 63743>>, <<64110, 64111>>, <<64218, 64255>>, <<64263, 64274>>, <<64280, 64284>>, <<64311, 64311>>,
       <<64317, 64317>>, <<64319, 64319>>, <<64322, 64322>>, <<64325, 64325>>, <<64451, 64466>>, <<64912, 64913>>,
       <<64968, 64974>>, <<64976, 65007>>, <<65050, 65055>>, <<65107, 65107>>, <<65127, 65127>>, <<65132, 65135>>,
       <<65141, 65141>>, <<65277, 65280>>, <<65471, 65473>>, <<65480, 65481>>, <<65488, 65489>>, <<65496, 65497>>,
       <<65501, 65503>>, <<65511, 65511>>, <<65519, 65531>>, <<65534, 65535>>, <<65548, 65548>>, <<65575, 65575>>,
       <<65595, 65595>>, <<65598, 65598>>, <<65614, 65615>>, <<65630, 65663>>, <<65787, 65791>>, <<65795, 65798>>,
       <<65844, 65846>>, <<65935, 65935>>, <<65949, 65951>>, <<65953, 65999>>, <<66046, 66175>>, <<66205, 66207>>,
       <<66257, 66271>>, <<66300, 66303>>, <<66340, 66348>>, <<66379, 66383>>, <<66427, 66431>>, <<66462, 66462>>,
       <<66500, 66503>>, <<66518, 66559>>, <<66718, 66719>>, <<66730, 66735>>, <<66772, 66775>>, <<66812, 66815>>,
       <<66856, 66863>>, <<66916, 66926>>, <<66939, 66939>>, <<66955, 66955>>, <<66963, 66963>>, <<66966, 66966>>,
       <<66978, 66978>>, <<66994, 66994>>, <<67002, 67002>>, <<67005, 67071>>, <<67383, 67391>>, <<67414, 67423>>,
       <<67432, 67455>>, <<67462, 67462>>, <<67505, 67505>>, <<67515, 67583>>, <<67590, 67591>>, <<67593, 67593>>,
       <<67638, 67638>>, <<67641, 67643>>, <<67645, 67646>>, <<67670, 67670>>, <<67743, 67750>>, <<67760, 67807>>,
       <<67827, 67827>>, <<67830, 67834>>, <<67868, 67870>>, <<67898, 67902>>, <<67904, 67967>>, <<68024, 68027>>,
       <<68048, 68049>>, <<68100, 68100>>, <<68103, 68107>>, <<68116, 68116>>, <<68120, 68120>>, <<68150, 68151>>,
       <<68155, 68158>>, <<68169, 68175>>, <<68185, 68191>>, <<68256, 68287>>, <<68327, 68330>>, <<68343, 68351>>,
       <<68406, 68408>>, <<68438, 68439>>, <<68467, 68471>>, <<68498, 68504>>, <<68509, 68520>>, <<68528, 68607>>,
       <<68681, 68735>>, <<68787, 68799>>, <<68851, 68857>>, <<68904, 68911>>, <<68922, 69215>>, <<69247, 69247>>,
       <<69290, 69290>>, <<69294, 69295>>, <<69298, 69375>>, <<69416, 69423>>, <<69466, 69487>>, <<69514, 69551>>,
       <<69580, 69599>>, <<69623, 69631>>, <<69710, 69713>>, <<69750, 69758>>, <<69821, 69821>>, <<69827, 69839>>,
       <<69865, 69871>>, <<69882, 69887>>, <<69941, 69941>>, <<69960, 69967>>, <<70007, 70015>>, <<70112, 70112>>,
       <<70133, 70143>>, <<70162, 70162>>, <<70207, 70271>>, <<70279, 70279>>, <<70281, 70281>>, <<70286, 70286>>,
       <<70302, 70302>>, <<70314, 70319>>, <<70379, 70383>>, <<70394, 70399>>, <<70404, 70404>>, <<70413, 70414>>,
       <<70417, 70418>>, <<70441, 70441>>, <<70449, 70449>>, <<70452, 70452>>, <<70458, 70458>>, <<70469, 70470>>,
       <<70473, 70474>>, <<70478, 70479>>, <<70481, 70486>>, <<70488, 70492>>, <<70500, 70501>>, <<70509, 70511>>,
       <<70517, 70655>>, <<70748, 70748>>, <<70754, 70783>>, <<70856, 70863>>, <<70874, 71039>>, <<71094, 71095>>,
       <<71134, 71167>>, <<71237, 71247>>, <<71258, 71263>>, <<71277, 71295>>, <<71354, 71359>>, <<71370, 71423>>,
       <<71451, 71452>>, <<71468, 71471>>, <<71495, 71679>>, <<71740, 71839>>, <<71923, 71934>>, <<71943, 71944>>,
       <<71946, 71947>>, <<71956, 71956>>, <<71959, 71959>>, <<71990, 71990>>, <<71993, 71994>>, <<72007, 72015>>,
       <<72026, 72095>>, <<72104, 72105>>, <<72152, 72153>>, <<72165, 72191>>, <<72264, 72271>>, <<72355, 72367>>,
       <<72441, 72703>>, <<72713, 72713>>, <<72759, 72759>>, <<72774, 72783>>, <<72813, 72815>>, <<72848, 72849>>,
       <<72872, 72872>>, <<72887, 72959>>, <<72967, 72967>>, <<72970, 72970>>, <<73015, 73017>>, <<73019, 73019>>,
       <<73022, 73022>>, <<73032, 73039>>, <<73050, 73055>>, <<73062, 73062>>, <<73065, 73065>>, <<73103, 73103>>,
       <<73106, 73106>>, <<73113, 73119>>, <<73130, 73439>>, <<73465, 73647>>, <<73649, 73663>>, <<73714, 73726>>,
       <<74650, 74751>>, <<74863, 74863>>, <<74869, 74879>>, <<75076, 77711>>, <<77811, 77823>>, <<78895, 82943>>,
       <<83527, 92159>>, <<92729, 92735>>, <<92767, 92767>>, <<92778, 92781>>, <<92863, 92863>>, <<92874, 92879>>,
       <<92910, 92911>>, <<92918, 92927>>, <<92998, 93007>>, <<93018, 93018>>, <<93026, 93026>>, <<93048, 93052>>,
       <<93072, 93759>>, <<93851, 93951>>, <<94027, 94030>>, <<94088, 94094>>, <<94112, 94175>>, <<94181, 94191>>,
       <<94194, 94207>>, <<100344, 100351>>, <<101590, 101631>>, <<101641, 110575>>, <<110580, 110580>>, <<110588, 110588>>,
       <<110591, 110591>>, <<110883, 110927>>, <<110931, 110947>>, <<110952, 110959>>, <<111356, 113663>>, <<113771, 113775>>,
       <<113789, 113791>>, <<113801, 113807>>, <<113818, 113819>>, <<113824, 118527>>, <<118574, 118575>>, <<118599, 118607>>,
       <<118724, 118783>>, <<119030, 119039>>, <<119079, 119080>>, <<119155, 119162>>, <<119275, 119295>>, <<119366, 119519>>,
       <<119540, 119551>>, <<119639, 119647>>, <<119673, 119807>>, <<119893, 119893>>, <<119965, 119965>>, <<119968, 119969>>,
       <<119971, 119972>>, <<119975, 119976>>, <<119981, 119981>>, <<119994, 119994>>, <<119996, 119996>>, <<120004, 120004>>,
       <<120070, 120070>>, <<120075, 120076>>, <<120085, 120085>>, <<120093, 120093>>, <<120122, 120122>>, <<120127, 120127>>,
       <<120133, 120133>>, <<120135, 120137>>, <<120145, 120145>>, <<120486, 120487>>, <<120780, 120781>>, <<121484, 121498>>,
       <<121504, 121504>>, <<121520, 122623>>, <<122655, 122879>>, <<122887, 122887>>, <<122905, 122906>>, <<122914, 122914>>,
       <<122917, 122917>>, <<122923, 123135>>, <<123181, 123183>>, <<123198, 123199>>, <<123210, 123213>>, <<123216, 123535>>,
       <<123567, 123583>>, <<123642, 123646>>, <<123648, 124895>>, <<124903, 124903>>, <<124908, 124908>>, <<124911, 124911>>,
       <<124927, 124927>>, <<125125, 125126>>, <<125143, 125183>>, <<125260, 125263>>, <<125274, 125277>>, <<125280, 126064>>,
       <<126133, 126208>>, <<126270, 126463>>, <<126468, 126468>>, <<126496, 126496>>, <<126499, 126499>>, <<126501, 126502>>,
       <<126504, 126504>>, <<126515, 126515>>, <<126520, 126520>>, <<126522, 126522>>, <<126524, 126529>>, <<126531, 126534>>,
       <<126536, 126536>>, <<126538, 126538>>, <<126540, 126540>>, <<126544, 126544>>, <<126547, 126547>>, <<126549, 126550>>,
       <<126552, 126552>>, <<126554, 126554>>, <<126556, 126556>>, <<126558, 126558>>, <<126560, 126560>>, <<126563, 126563>>,
       <<126565, 126566>>, <<126571, 126571>>, <<126579, 126579>>, <<126584, 126584>>, <<126589, 126589>>, <<126591, 126591>>,
       <<126602, 126602>>, <<126620, 126624>>, <<126628, 126628>>, <<126634, 126634>>, <<126652, 126703>>, <<126706, 126975>>,
       <<127020, 127023>>, <<127124, 127135>>, <<127151, 127152>>, <<127168, 127168>>, <<127184, 127184>>, <<127222, 127231>>,
       <<127406, 127461>>, <<127491, 127503>>, <<127548, 127551>>, <<127561, 127567>>, <<127570, 127583>>, <<127590, 127743>>,
       <<128728, 128732>>, <<128749, 128751>>, <<128765, 128767>>, <<128884, 128895>>, <<128985, 128991>>, <<129004, 129007>>,
       <<129009, 129023>>, <<129036, 129039>>, <<129096, 129103>>, <<129114, 129119>>, <<129160, 129167>>, <<129198, 129199>>,
       <<129202, 129279>>, <<129620, 129631>>, <<129646, 129647>>, <<129653, 129655>>, <<129661, 129663>>, <<129671, 129679>>,
       <<129709, 129711>>, <<129723, 129727>>, <<129734, 129743>>, <<129754, 129759>>, <<129768, 129775>>, <<129783, 129791>>,
       <<129939, 129939>>, <<129995, 130031>>, <<130042, 131071>>, <<173792, 173823>>, <<177977, 177983>>, <<178206, 178207>>,
       <<183970, 183983>>, <<191457, 194559>>, <<195102, 196607>>, <<201547, 917759>>, <<918000, 1114111>> >>

Printable(n) ==
    ~\E i \in 1..Len(NonPrintable) : NonPrintable[i][1] <= n /\ n <= NonPrintable[i][2]

\* The escape of a code point that is not printable: \xhh, \uhhhh or
\* \Uhhhhhhhh by its size.
Escape(n) ==
    IF n < 256 THEN S("\\x") \o Hex(n, 2)
    ELSE IF n < 65536 THEN S("\\u") \o Hex(n, 4)
    ELSE S("\\U") \o Hex(n, 8)

\* repr of the character of code point c inside the quote q: the backslash
\* and the quote are escaped, tab, newline and return have their letter, any
\* other character that is not printable its code.
ReprChar(c, q) ==
    IF <<c>> = S("\\") THEN S("\\\\")
    ELSE IF <<c>> = q THEN S("\\") \o q
    ELSE IF c = 9 THEN S("\\t")
    ELSE IF c = 10 THEN S("\\n")
    ELSE IF c = 13 THEN S("\\r")
    ELSE IF Printable(c) THEN <<c>>
    ELSE Escape(c)

RECURSIVE ReprChars(_, _)
ReprChars(s, q) ==
    IF Len(s) = 0 THEN <<>> ELSE ReprChar(s[1], q) \o ReprChars(Tail(s), q)

\* The quote repr puts a str in: the double one when the str has a ' and
\* no ", the single one otherwise.
Quote(s) ==
    IF Contains(s, S("'")[1]) /\ ~Contains(s, S("\"")[1]) THEN S("\"") ELSE S("'")

\* repr(s) of a str.
ReprStr(s) == Quote(s) \o ReprChars(s, Quote(s)) \o Quote(s)

RECURSIVE Join(_)
\* ", ".join(parts)
Join(parts) ==
    IF Len(parts) = 0 THEN <<>>
    ELSE IF Len(parts) = 1 THEN parts[1]
    ELSE parts[1] \o S(", ") \o Join(Tail(parts))

RECURSIVE Repr(_)
\* repr(x) of a value of a parsed document.
Repr(x) ==
    CASE x.t = "str" -> ReprStr(x.v)
      [] x.t = "num" -> Digits(x.v)
      [] x.t = "bool" -> IF x.v THEN S("True") ELSE S("False")
      [] x.t = "null" -> S("None")
      [] x.t = "list" -> S("[") \o Join([i \in 1..Len(x.v) |-> Repr(x.v[i])]) \o S("]")
      [] x.t = "dict" ->
            S("{") \o Join([i \in 1..Len(x.v) |->
                            ReprStr(x.v[i][1]) \o S(": ") \o Repr(x.v[i][2])]) \o S("}")

\* str(x): a str is itself, anything else its repr.
PyStr(x) == IF isstr(x) THEN x.v ELSE Repr(x)

\* Lines 117-131 of extract_meta: the returned values, given the four popped
\* ones and what is left of attrs.
Meta(count, for_each, depends_on, provider, rest) ==
    [ count |-> IF count /= Null THEN _to_expr_or_val(count) ELSE Null,
      for_each |-> IF for_each /= Null THEN _to_expr_or_val(for_each) ELSE Null,
      depends |->
        IF depends_on = Null THEN List(<<>>)
        ELSE IF islist(depends_on)
             THEN List([i \in 1..Len(depends_on.v) |-> Str(PyStr(depends_on.v[i]))])
             ELSE List(<<Str(PyStr(depends_on))>>),
      provider_alias |-> IF isstr(provider) THEN provider ELSE Null,
      attrs |-> rest ]

\* A variant of extract_meta that reads "provider" with get instead of pop, so
\* the key stays in attrs.
extract_meta_keeps_provider(attrs) ==
    Meta(GetOrNull(attrs, S("count")), GetOrNull(attrs, S("for_each")),
         GetOrNull(attrs, S("depends_on")), GetOrNull(attrs, S("provider")),
         Without(attrs, {S("count"), S("for_each"), S("depends_on")}))

\* extract_meta(attrs): the four extracted values, and attrs as the four pops
\* leave it.
extract_meta(attrs) ==
    Meta(GetOrNull(attrs, S("count")), GetOrNull(attrs, S("for_each")),
         GetOrNull(attrs, S("depends_on")), GetOrNull(attrs, S("provider")),
         Without(attrs, META_KEYS))

\* The (record, reason) pair make_record returns.
Rejected(reason) == [rec |-> Null, err |-> Tuple(<<reason>>)]
Accepted(rec) == [rec |-> rec, err |-> Null]

\* Line 149: OrderedDict(sorted((k, normalize_value(v)) for k, v in attrs.items())),
\* of the items already in key order (the keys of a dict are distinct, so the
\* pairs are ordered by key alone).
NormAttrs(items) ==
    Dict([i \in 1..Len(items) |-> <<items[i][1], normalize_value(items[i][2])>>])

\* Lines 146-162 of make_record: the alias check and the record, given what
\* extract_meta returned (m).
Assemble(kind, rtype, name, service, m) ==
    IF Truthy(m.provider_alias) /\ ~startswith(m.provider_alias.v, S("aws"))
    THEN Rejected(S("non_aws_provider_alias"))
    ELSE Accepted([ address |-> rtype \o S(".") \o name,
                    type |-> rtype,
                    name |-> name,
                    service |-> service.v,
                    mode |-> IF kind = S("data") THEN S("data") ELSE S("resource"),
                    provider_alias |-> IF Truthy(m.provider_alias)
                                       THEN m.provider_alias ELSE Null,
                    depends_on |-> m.depends,
                    count |-> m.count,
                    for_each |-> m.for_each,
                    attributes |-> NormAttrs(Sorted(m.attrs, ItemKeys(m.attrs))) ])

\* Lines 143-162 of make_record: the result for a body that is a mapping and a
\* type of the given service.
BuildRecord(kind, rtype, name, service, body) ==
    Assemble(kind, rtype, name, service, extract_meta(body.v))

\* A variant of make_record that looks at the body before the type.
make_record_body_first(kind, rtype, name, body) ==
    IF ~isdict(body) THEN Rejected(S("malformed_block"))
    ELSE IF ~startswith(rtype, S("aws_")) THEN Rejected(S("non_aws_provider"))
    ELSE IF service_for_type(rtype) = Null THEN Rejected(S("unsupported_service"))
    ELSE BuildRecord(kind, rtype, name, service_for_type(rtype), body)

make_record(kind, rtype, name, body) ==
    IF ~startswith(rtype, S("aws_")) THEN Rejected(S("non_aws_provider"))
    ELSE IF service_for_type(rtype) = Null THEN Rejected(S("unsupported_service"))
    ELSE IF ~isdict(body) THEN Rejected(S("malformed_block"))
    ELSE BuildRecord(kind, rtype, name, service_for_type(rtype), body)

-----------------------------------------------------------------------------
(* Inputs of make_record *)

MaxBodyKeys == 2

\* Types of every classification rule, of none, and outside the namespace.
TypeNames ==
    VPC_TYPES \cup EC2_TYPES \cup
    { S("aws_iam_role"), S("aws_iam_"), S("aws_s3_bucket"), S("aws_rds_cluster"),
      S("aws_db_instance"), S("aws_unknown_widget"), S("aws_"), S("aws"), S("awscc_thing"),
      S("azurerm_resource_group"), S("azurerm_vm") }

\* The types that are given every body of the model; the others get the
\* minimal ones.
BodyTypes == {S("aws_instance"), S("aws_iam_role"), S("aws_vpc"), S("azurerm_vm"), S("aws_unknown_widget")}

\* key = value lines a body is made of.
BodyFields ==
    { <<S("count"), Num(2)>>, <<S("count"), Str(S("${var.n}"))>>, <<S("count"), Null>>,
      <<S("for_each"), Str(S(" ${ var.m } "))>>,
      <<S("depends_on"), List(<<Str(S("aws_vpc.main")), Num(7)>>)>>,
      <<S("depends_on"), Str(S("aws_vpc.main"))>>,
      <<S("depends_on"), List(<<>>)>>, <<S("depends_on"), Null>>,
      <<S("depends_on"), List(<<Num(0 - 5), List(<<Str(S("it's"))>>),
                             Dict(<< <<S("k"), Bool(TRUE)>>, <<S("a") \o <<9>> \o S("b"), Null>> >>)>>)>>,
      <<S("provider"), Str(S("aws"))>>, <<S("provider"), Str(S("aws.east"))>>,
      <<S("provider"), Str(S("awscc.east"))>>, <<S("provider"), Str(S("google"))>>,
      <<S("provider"), Str(<<>>)>>, <<S("provider"), Num(1)>>,
      <<S("provisioner"), List(<<Dict(<< <<S("local-exec"), Dict(<< <<S("command"), Str(S("ls"))>> >>)>> >>)>>)>>,
      <<S("connection"), Dict(<< <<S("host"), Str(S("${self.ip}"))>> >>)>>,
      <<S("ami"), Str(S("${data.aws_ami.x.id}"))>>,
      <<S("tags"), Dict(<< <<S("provisioner"), Str(S("p"))>>, <<S("name"), Str(S("web"))>> >>)>> }

RECURSIVE ItemSeqs(_)
\* The item sequences of at most n fields with distinct keys, in every order.
ItemSeqs(n) ==
    IF n = 0 THEN {<<>>}
    ELSE LET shorter == ItemSeqs(n - 1)
         IN  shorter \cup
             {Append(items, f) : items \in shorter, f \in {g \in BodyFields : TRUE}}

DistinctKeys(items) == \A i, j \in 1..Len(items) : items[i][1] = items[j][1] => i = j

MappingBodies == {Dict(items) : items \in {q \in ItemSeqs(MaxBodyKeys) : DistinctKeys(q)}}

\* Bodies that are no mapping.
MalformedBodies == {Null, Str(S("x")), List(<<>>)}

MinimalBodies == {Dict(<<>>)} \cup MalformedBodies

Bodies == MappingBodies \cup MalformedBodies

Kinds == {S("resource"), S("data")}

InitRecord ==
    /\ pc = "start"
    /\ \E kind \in Kinds, rtype \in TypeNames :
         \E body \in (IF rtype \in BodyTypes THEN Bodies ELSE MinimalBodies) :
            arg = [kind |-> kind, rtype |-> rtype, name |-> S("web"), body |-> body]
    /\ ret = <<>>
    /\ files = NoFiles /\ include_ignored = FALSE
    /\ all_resources = <<>> /\ all_datas = <<>> /\ all_ignored = <<>>
    /\ out = Null

MakeRecord ==
    /\ pc = "start"
    /\ ret' = make_record(arg.kind, arg.rtype, arg.name, arg.body)
    /\ pc' = "done"
    /\ UNCHANGED <<arg, files, include_ignored, all_resources, all_datas, all_ignored, out>>

NextRecord == MakeRecord

SpecRecord == InitRecord /\ [][NextRecord]_vars

Built == pc = "done" /\ ret.rec /= Null

\* Whether a normalised value has one of the keys at any depth.
RECURSIVE HasKeyDeep(_, _)
HasKeyDeep(x, ks) ==
    IF isdict(x) THEN
        \E i \in 1..Len(x.v) : x.v[i][1] \in ks \/ HasKeyDeep(x.v[i][2], ks)
    ELSE IF islist(x) THEN \E i \in 1..Len(x.v) : HasKeyDeep(x.v[i], ks)
    ELSE FALSE

\* C2: the attributes of every record make_record returns have no key
\* "provisioner" or "connection", neither at the top level nor in any mapping
\* nested inside.
C2_NoExecKeys == Built => ~HasKeyDeep(ret.rec.attributes, EXEC_KEYS)

\* C3: the top-level keys of a record's attributes are none of count,
\* for_each, depends_on, provider; they are keys of the body and include every
\* key of the body that is neither one of those four nor an execution-only
\* block; and the extracted values are in the record's own fields (null,
\* or the empty list, when the body has no such key): depends_on is a list of
\* str, with one for each element of the body's list, or the body's str alone.
C3_MetadataIsolation ==
    Built =>
        LET body == arg.body.v
            attrs == ret.rec.attributes.v
        IN  /\ Keys(attrs) \cap META_KEYS = {}
            /\ (Keys(body) \ (META_KEYS \cup EXEC_KEYS)) \subseteq Keys(attrs)
            /\ Keys(attrs) \subseteq Keys(body) \ META_KEYS
            /\ (S("count") \notin Keys(body)) => ret.rec.count = Null
            /\ (S("count") \in Keys(body) /\ ~isstr(Get(body, S("count"))))
                    => ret.rec.count = Get(body, S("count"))
            /\ (S("for_each") \notin Keys(body)) => ret.rec.for_each = Null
            /\ (S("depends_on") \notin Keys(body)) => ret.rec.depends_on = List(<<>>)
            /\ \A i \in 1..Len(ret.rec.depends_on.v) : isstr(ret.rec.depends_on.v[i])
            /\ (S("depends_on") \in Keys(body) /\ islist(Get(body, S("depends_on"))))
                    => Len(ret.rec.depends_on.v) = Len(Get(body, S("depends_on")).v)
            /\ (S("depends_on") \in Keys(body) /\ isstr(Get(body, S("depends_on"))))
                    => ret.rec.depends_on = List(<<Get(body, S("depends_on"))>>)
            /\ (S("depends_on") \in Keys(body) /\ Get(body, S("depends_on")) = Null)
                    => ret.rec.depends_on = List(<<>>)
            /\ (S("provider") \notin Keys(body)) => ret.rec.provider_alias = Null

\* A record was built from a body that had only a provider and a count: both
\* are in the record's own fields and attributes is empty.
C3_Witness ==
    /\ Built
    /\ arg.body = Dict(<< <<S("provider"), Str(S("aws.east"))>>, <<S("count"), Num(2)>> >>)
    /\ ret.rec.attributes = Dict(<<>>)
    /\ ret.rec.count = Num(2)
    /\ ret.rec.provider_alias = Str(S("aws.east"))

\* C3, third case: depends_on holds a negative number, a list and a mapping,
\* and the record has the str of each.
C3_WitnessDepends ==
    /\ Built
    /\ ret.rec.depends_on =
           List(<<Str(S("-5")), Str(S("[\"it's\"]")), Str(S("{'k': True, 'a\\tb': None}"))>>)
    /\ S("depends_on") \notin Keys(ret.rec.attributes.v)

\* C3, second case: the other keys of the body are kept.
C3_WitnessKept ==
    /\ Built
    /\ S("ami") \in Keys(arg.body.v) /\ S("for_each") \in Keys(arg.body.v)
    /\ Keys(ret.rec.attributes.v) = {S("ami")}

\* The classification table as a relation: type t is under service s.
Classifies(s, t) ==
    \/ s = S("iam") /\ startswith(t, IAM_PREFIX)
    \/ s = S("s3") /\ startswith(t, S3_PREFIX)
    \/ s = S("rds") /\ \E p \in RDS_PREFIXES : startswith(t, p)
    \/ s = S("vpc") /\ t \in VPC_TYPES
    \/ s = S("ec2") /\ t \in EC2_TYPES

ServicesOf(t) == {s \in {SERVICES_KEYS[i] : i \in 1..Len(SERVICES_KEYS)} : Classifies(s, t)}

\* C4: make_record's checks run in the order type namespace, service, body,
\* provider alias, and the first failing one gives the reason; exactly one of
\* record and reason is returned; a record's service is the one service the
\* classification table gives its type.
C4_ValidationOrder ==
    pc = "done" =>
        LET t == arg.rtype IN
        /\ (ret.rec = Null) /= (ret.err = Null)
        /\ ~startswith(t, S("aws_")) => ret = Rejected(S("non_aws_provider"))
        /\ (startswith(t, S("aws_")) /\ ServicesOf(t) = {})
                => ret = Rejected(S("unsupported_service"))
        /\ (startswith(t, S("aws_")) /\ ServicesOf(t) /= {} /\ ~isdict(arg.body))
                => ret = Rejected(S("malformed_block"))
        /\ ret.err /= Null =>
                ret.err \in { Tuple(<<r>>) : r \in
                                { S("non_aws_provider"), S("unsupported_service"),
                                  S("malformed_block"), S("non_aws_provider_alias") } }
        /\ ret.err = Tuple(<<S("non_aws_provider_alias")>>) =>
                (startswith(t, S("aws_")) /\ ServicesOf(t) /= {} /\ isdict(arg.body))
        /\ ret.rec /= Null =>
                /\ startswith(t, S("aws_")) /\ isdict(arg.body)
                /\ ServicesOf(t) = {ret.rec.service}

\* A type outside the namespace with a malformed body was refused for its type.
C4_Witness ==
    /\ pc = "done"
    /\ arg.rtype = S("azurerm_resource_group") /\ arg.body = Null
    /\ ret = Rejected(S("non_aws_provider"))

\* C4, further cases: an unclassified aws type with a malformed body, a
\* classified type with a malformed body, and a record of each service.
C4_WitnessUnsupported ==
    /\ pc = "done"
    /\ arg.rtype = S("aws_unknown_widget") /\ arg.body = Str(S("x"))
    /\ ret = Rejected(S("unsupported_service"))

C4_WitnessMalformed ==
    /\ pc = "done"
    /\ arg.rtype = S("aws_instance") /\ arg.body = List(<<>>)
    /\ ret = Rejected(S("malformed_block"))

C4_WitnessService ==
    /\ Built
    /\ arg.rtype = S("aws_eip_association") /\ ret.rec.service = S("vpc")

\* The aws provider namespace: the provider "aws", or "aws." and an alias.
InAwsNamespace(s) == s = S("aws") \/ (startswith(s, S("aws.")) /\ Len(s) > 4)

PassesChecks123 ==
    /\ startswith(arg.rtype, S("aws_"))
    /\ service_for_type(arg.rtype) /= Null
    /\ isdict(arg.body)

\* C10: for a type and body that pass checks 1-3, a provider that is a string
\* outside the aws namespace gives the reason non_aws_provider_alias and no
\* record; a string inside it becomes the record's provider_alias; an absent
\* or non-string provider gives a record with provider_alias null.
C10_ProviderAlias ==
    (pc = "done" /\ PassesChecks123) =>
        LET p == GetOrNull(arg.body.v, S("provider")) IN
        /\ (isstr(p) /\ ~InAwsNamespace(p.v)) => ret = Rejected(S("non_aws_provider_alias"))
        /\ (isstr(p) /\ InAwsNamespace(p.v)) => (Built /\ ret.rec.provider_alias = p)
        /\ ~isstr(p) => (Built /\ ret.rec.provider_alias = Null)

-----------------------------------------------------------------------------
(* collect_from_doc *)

RECURSIVE Concat(_)
\* The sequences of a sequence, one after the other.
Concat(seqs) == IF Len(seqs) = 0 THEN <<>> ELSE Head(seqs) \o Concat(Tail(seqs))

\* A variant of _iter_resource_entries that merges the entries of a sequence
\* into one mapping first, so a type met again replaces the one met before.
_iter_resource_entries_merged(section) ==
    IF section = Null THEN <<>>
    ELSE IF islist(section) THEN
        LET all == Concat([i \in 1..Len(section.v) |->
                              IF isdict(section.v[i]) THEN section.v[i].v ELSE <<>>])
        IN  SelectSeq([i \in 1..Len(all) |->
                          IF \E j \in (i + 1)..Len(all) : all[j][1] = all[i][1]
                          THEN <<>> ELSE all[i]],
                      LAMBDA e : e /= <<>>)
    ELSE IF isdict(section) THEN section.v
    ELSE <<>>

\* The (rtype, blocks) pairs _iter_resource_entries yields, in order.
_iter_resource_entries(section) ==
    IF section = Null THEN <<>>
    ELSE IF islist(section) THEN
        Concat([i \in 1..Len(section.v) |->
                   IF isdict(section.v[i]) THEN section.v[i].v ELSE <<>>])
    ELSE IF isdict(section) THEN section.v
    ELSE <<>>

\* A variant of _iter_name_bodies that passes over the bodies that are no
\* mapping.
_iter_name_bodies_mappings_only(blocks) ==
    LET all == IF islist(blocks) THEN
                   Concat([i \in 1..Len(blocks.v) |->
                              IF isdict(blocks.v[i]) THEN blocks.v[i].v ELSE <<>>])
               ELSE IF isdict(blocks) THEN blocks.v
               ELSE <<>>
    IN  SelectSeq(all, LAMBDA nb : isdict(nb[2]))

\* The (name, body) pairs _iter_name_bodies yields, in order.
_iter_name_bodies(blocks) ==
    IF islist(blocks) THEN
        Concat([i \in 1..Len(blocks.v) |->
                   IF isdict(blocks.v[i]) THEN blocks.v[i].v ELSE <<>>])
    ELSE IF isdict(blocks) THEN blocks.v
    ELSE <<>>

\* The declarations of one type: (rtype, name, body) for each (name, body).
Triples(rtype, nbs) == [j \in 1..Len(nbs) |-> <<rtype, nbs[j][1], nbs[j][2]>>]

\* The inner loop over each (rtype, blocks) pair; blocks of None are passed over.
FlattenBlocks(entries) ==
    Concat([i \in 1..Len(entries) |->
               IF entries[i][2] = Null THEN <<>>
               ELSE Triples(entries[i][1], _iter_name_bodies(entries[i][2]))])

\* The (rtype, name, body) triples the two nested loops of collect_from_doc
\* visit for one section, in order.
Declarations(section) == FlattenBlocks(_iter_resource_entries(section))

\* make_record for every declaration, in order.
Outcomes(kind, decls) ==
    [i \in 1..Len(decls) |->
        [type |-> decls[i][1], name |-> decls[i][2],
         made |-> make_record(kind, decls[i][1], decls[i][2], decls[i][3])]]

\* The records of the outcomes that have one.
Records(hits) == [k \in 1..Len(hits) |-> hits[k].made.rec]

\* The ignored items of the outcomes that have no record: str(name) is name,
\* a key of a parsed document being a string.
IgnoredItems(kind, misses) ==
    [k \in 1..Len(misses) |->
        [kind |-> kind, type |-> misses[k].type, name |-> misses[k].name,
         reason |-> IF Truthy(misses[k].made.err) THEN misses[k].made.err.v[1]
                    ELSE S("unknown")]]

\* rec to the record list; otherwise, when include_ignored, an ignored item.
Route(kind, outcomes, inc) ==
    [ recs |-> Records(SelectSeq(outcomes, LAMBDA o : o.made.rec /= Null)),
      ignored |-> IF inc
                  THEN IgnoredItems(kind, SelectSeq(outcomes, LAMBDA o : o.made.rec = Null))
                  ELSE <<>> ]

\* One of the two loops of collect_from_doc: the records and the ignored
\* items of a section.
CollectSection(kind, section, inc) ==
    Route(kind, Outcomes(kind, Declarations(section)), inc)

\* The three lists collect_from_doc returns, of what its two loops gave.
Collected(r, d) ==
    [resources |-> r.recs, datas |-> d.recs, ignored |-> r.ignored \o d.ignored]

collect_from_doc(doc, inc) ==
    Collected(CollectSection(S("resource"), GetOrNull(doc.v, S("resource")), inc),
              CollectSection(S("data"), GetOrNull(doc.v, S("data")), inc))

-----------------------------------------------------------------------------
(* Inputs of collect_from_doc: a list of declarations with distinct            *)
(* (kind, type, name), written as a document in one of the shapes the parser *)
(* may give.                                                                 *)

MaxDecls == 2

DeclTypes == {S("aws_instance"), S("aws_vpc"), S("azurerm_vm")}
DeclNames == {S("a"), S("b")}
DeclBodies == {Dict(<< <<S("ami"), Str(S("${var.ami}"))>> >>), Str(S("x"))}

DeclSet == [kind : Kinds, type : DeclTypes, name : DeclNames, body : DeclBodies]

RECURSIVE DeclSeqs(_)
DeclSeqs(n) ==
    IF n = 0 THEN {<<>>}
    ELSE LET shorter == DeclSeqs(n - 1)
         IN  shorter \cup
             { Append(es, e) : es \in shorter,
                 e \in { x \in DeclSet : TRUE } }

DistinctDecls(es) ==
    \A i, j \in 1..Len(es) :
        (es[i].kind = es[j].kind /\ es[i].type = es[j].type /\ es[i].name = es[j].name)
            => i = j

DeclLists == {es \in DeclSeqs(MaxDecls) : DistinctDecls(es)}

RECURSIVE FirstTypes(_)
\* The types of a list of declarations, each once, in order of first use.
FirstTypes(es) ==
    IF Len(es) = 0 THEN <<>>
    ELSE <<es[1].type>> \o FirstTypes(SelectSeq(Tail(es), LAMBDA e : e.type /= es[1].type))

\* name -> body items of the declarations of one type.
NameItems(es, t) ==
    LET mine == SelectSeq(es, LAMBDA e : e.type = t)
    IN  [i \in 1..Len(mine) |-> <<mine[i].name, mine[i].body>>]

SingleEntries(items) == List([i \in 1..Len(items) |-> Dict(<<items[i]>>)])

Shapes == {"map", "typeseq", "instseq", "bothseq", "split"}
GroupedShapes == {"map", "typeseq", "instseq", "bothseq"}

\* type -> blocks items for the types ts, blocks as a mapping of the instances.
TypeItemsAsMap(es, ts) ==
    [i \in 1..Len(ts) |-> <<ts[i], Dict(NameItems(es, ts[i]))>>]

\* type -> blocks items, blocks as a sequence of single-entry mappings.
TypeItemsAsSeq(es, ts) ==
    [i \in 1..Len(ts) |-> <<ts[i], SingleEntries(NameItems(es, ts[i]))>>]

\* The section of the declarations es in a shape.
Section(es, shape) ==
    CASE shape = "map" -> Dict(TypeItemsAsMap(es, FirstTypes(es)))
      [] shape = "typeseq" -> SingleEntries(TypeItemsAsMap(es, FirstTypes(es)))
      [] shape = "instseq" -> Dict(TypeItemsAsSeq(es, FirstTypes(es)))
      [] shape = "bothseq" -> SingleEntries(TypeItemsAsSeq(es, FirstTypes(es)))
      [] shape = "split" ->
            List([i \in 1..Len(es) |->
                    Dict(<< <<es[i].type, Dict(<< <<es[i].name, es[i].body>> >>)>> >>)])

\* The items of a document for a section name: none when it has no declaration.
SectionItems(key, es, shape) ==
    IF Len(es) > 0 THEN << <<key, Section(es, shape)>> >> ELSE <<>>

\* The document of the declarations es: a section is absent when it would be
\* empty.
Document(es, shape) ==
    Dict(SectionItems(S("resource"), SelectSeq(es, LAMBDA e : e.kind = S("resource")), shape)
         \o SectionItems(S("data"), SelectSeq(es, LAMBDA e : e.kind = S("data")), shape))

InitCollect ==
    /\ pc = "start"
    /\ \E es \in DeclLists, inc \in BOOLEAN :
          arg = [entries |-> es, include_ignored |-> inc, shape |-> "none"]
    /\ ret = <<>>
    /\ files = NoFiles /\ include_ignored = FALSE
    /\ all_resources = <<>> /\ all_datas = <<>> /\ all_ignored = <<>>
    /\ out = Null

Collect(shape) ==
    /\ pc = "start"
    /\ arg' = [arg EXCEPT !.shape = shape]
    /\ ret' = collect_from_doc(Document(arg.entries, shape), arg.include_ignored)
    /\ pc' = "done"
    /\ UNCHANGED <<files, include_ignored, all_resources, all_datas, all_ignored, out>>

NextCollect == \E shape \in Shapes : Collect(shape)

SpecCollect == InitCollect /\ [][NextCollect]_vars

\* How many times x is in the sequence xs.
Count(xs, x) == Cardinality({i \in 1..Len(xs) : xs[i] = x})

\* Two sequences with the same elements, each as many times.
SameBag(xs, ys) ==
    /\ Len(xs) = Len(ys)
    /\ \A i \in 1..Len(xs) : Count(xs, xs[i]) = Count(ys, xs[i])

\* C5: the mapping shape and the sequence-of-single-entry-mappings shape, at
\* the type level, at the instance level or at both, give the same resources,
\* data_sources and ignored; and a sequence in which the same type comes in
\* several entries gives one output for every instance of every entry, the
\* same outputs as the mapping gives.
C5_ShapeEquivalence ==
    pc = "done" =>
        LET asMap == collect_from_doc(Document(arg.entries, "map"), arg.include_ignored)
        IN  /\ arg.shape \in GroupedShapes => ret = asMap
            /\ arg.shape = "split" =>
                  /\ SameBag(ret.resources, asMap.resources)
                  /\ SameBag(ret.datas, asMap.datas)
                  /\ SameBag(ret.ignored, asMap.ignored)
                  /\ arg.include_ignored =>
                        Len(ret.resources) + Len(ret.datas) + Len(ret.ignored)
                            = Len(arg.entries)

\* One type came in two entries of a sequence, and both instances are out.
C5_Witness ==
    /\ pc = "done" /\ arg.shape = "split"
    /\ Len(arg.entries) = 2
    /\ arg.entries[1].type = S("aws_instance") /\ arg.entries[2].type = S("aws_instance")
    /\ arg.entries[1].kind = S("resource") /\ arg.entries[2].kind = S("resource")
    /\ Len(ret.resources) = 2
    /\ ret.resources[1].name /= ret.resources[2].name

\* C5, the sequence shape at both levels gave what the mapping gives.
C5_WitnessBoth ==
    /\ pc = "done" /\ arg.shape = "bothseq"
    /\ Len(ret.resources) = 1 /\ Len(ret.datas) = 1

\* The outputs of a run that carry a declaration's kind, type and name.
OutputsOf(e) ==
    LET recs == IF e.kind = S("resource") THEN ret.resources ELSE ret.datas
    IN  [ recs |-> {i \in 1..Len(recs) : recs[i].type = e.type /\ recs[i].name = e.name},
          wrong |-> LET other == IF e.kind = S("resource") THEN ret.datas ELSE ret.resources
                    IN  {i \in 1..Len(other) :
                            /\ other[i].type = e.type /\ other[i].name = e.name
                            /\ \A j \in 1..Len(arg.entries) :
                                 ~(arg.entries[j].kind /= e.kind
                                   /\ arg.entries[j].type = e.type
                                   /\ arg.entries[j].name = e.name)},
          ignored |-> {i \in 1..Len(ret.ignored) :
                          /\ ret.ignored[i].kind = e.kind
                          /\ ret.ignored[i].type = e.type
                          /\ ret.ignored[i].name = e.name} ]

\* C7: with include_ignored true every declaration of the document has exactly
\* one output: its record, in resources for a resource and data_sources for a
\* data source, or an ignored item with its kind, type, name and make_record's
\* reason, which is malformed_block for a classified type whose body is no
\* mapping; the lists hold nothing else, records only in the record lists and
\* ignored items only in ignored.
C7_Routing ==
    (pc = "done" /\ arg.include_ignored) =>
        /\ Len(ret.resources) + Len(ret.datas) + Len(ret.ignored) = Len(arg.entries)
        /\ \A i \in 1..Len(ret.resources) :
              "address" \in DOMAIN ret.resources[i] /\ ret.resources[i].mode = S("resource")
        /\ \A i \in 1..Len(ret.datas) :
              "address" \in DOMAIN ret.datas[i] /\ ret.datas[i].mode = S("data")
        /\ \A i \in 1..Len(ret.ignored) :
              DOMAIN ret.ignored[i] = {"kind", "type", "name", "reason"}
        /\ \A n \in 1..Len(arg.entries) :
              LET e == arg.entries[n]
                  o == OutputsOf(e)
                  made == make_record(e.kind, e.type, e.name, e.body)
                  recs == IF e.kind = S("resource") THEN ret.resources ELSE ret.datas
              IN  /\ Cardinality(o.recs) + Cardinality(o.ignored) = 1
                  /\ o.wrong = {}
                  /\ \A i \in o.recs : recs[i] = made.rec
                  /\ \A i \in o.ignored :
                        /\ made.rec = Null
                        /\ ret.ignored[i].reason = made.err.v[1]
                  /\ (service_for_type(e.type) /= Null /\ startswith(e.type, S("aws_"))
                        /\ ~isdict(e.body))
                        => \E i \in o.ignored : ret.ignored[i].reason = S("malformed_block")

\* A data source with a malformed body and a resource were collected: one
\* ignored item with malformed_block, one record.
C7_Witness ==
    /\ pc = "done" /\ arg.include_ignored
    /\ Len(ret.resources) = 1 /\ Len(ret.datas) = 0
    /\ ret.ignored = <<[kind |-> S("data"), type |-> S("aws_vpc"), name |-> S("a"),
                        reason |-> S("malformed_block")]>>

-----------------------------------------------------------------------------
(* sort_records, organize_by_service and the ignored sort *)

RecordKey(r) == <<r.type, r.name, r.address>>

\* A variant of sort_records whose key is the name alone.
sort_records_by_name(recs) == Sorted(recs, [i \in 1..Len(recs) |-> <<recs[i].name>>])

sort_records(recs) == Sorted(recs, [i \in 1..Len(recs) |-> RecordKey(recs[i])])

ServiceSet == {SERVICES_KEYS[i] : i \in 1..Len(SERVICES_KEYS)}

organize_by_service(resources, datas) ==
    [ k \in ServiceSet |->
        [ resources |-> sort_records(SelectSeq(resources, LAMBDA r : r.service = k)),
          data_sources |-> sort_records(SelectSeq(datas, LAMBDA d : d.service = k)) ] ]

\* x.get(f, "") of an ignored item.
FieldOrEmpty(x, f) == IF f \in DOMAIN x THEN x[f] ELSE <<>>

IgnoredKey(x) ==
    <<FieldOrEmpty(x, "kind"), FieldOrEmpty(x, "type"), FieldOrEmpty(x, "name"),
      FieldOrEmpty(x, "path"), FieldOrEmpty(x, "reason")>>

\* sorted(all_ignored, key = ...)
SortIgnored(ignored) == Sorted(ignored, [i \in 1..Len(ignored) |-> IgnoredKey(ignored[i])])

\* Lines 269-277: the envelope of the merged lists.
Envelope(resources, datas, ignored, inc) ==
    LET services == organize_by_service(resources, datas)
    IN  IF inc
        THEN [version |-> S("1.0"), provider |-> S("aws"), services |-> services,
              ignored |-> SortIgnored(ignored)]
        ELSE [version |-> S("1.0"), provider |-> S("aws"), services |-> services]

-----------------------------------------------------------------------------
(* transform_from_prompt.  A unit is [path, content]; the parser is outside  *)
(* the program, so a content is what parse_tf_string makes of it: the        *)
(* document it returns or the message of the exception it raises.            *)

Parsed(doc) == [ok |-> TRUE, doc |-> doc]
Unparsable(message) == [ok |-> FALSE, message |-> message]

\* f.get("path") or "<memory>"
PathOf(f) == IF f.path /= <<>> THEN f.path ELSE S("<memory>")

FileItem(f) ==
    [kind |-> S("file"), path |-> PathOf(f), reason |-> S("parse_error"),
     message |-> f.content.message]

\* What one turn of the loop over the files adds to the three lists.
UnitYield(f, inc) ==
    IF ~f.content.ok
    THEN [resources |-> <<>>, datas |-> <<>>,
          ignored |-> IF inc THEN <<FileItem(f)>> ELSE <<>>]
    ELSE collect_from_doc(f.content.doc, inc)

RECURSIVE Merged(_, _)
\* The three lists after the loop over fs.
Merged(fs, inc) ==
    IF Len(fs) = 0 THEN [resources |-> <<>>, datas |-> <<>>, ignored |-> <<>>]
    ELSE LET y == UnitYield(fs[Len(fs)], inc)
             m == Merged(SubSeq(fs, 1, Len(fs) - 1), inc)
         IN  [resources |-> m.resources \o y.resources,
              datas |-> m.datas \o y.datas,
              ignored |-> m.ignored \o y.ignored]

\* transform_from_prompt as a function of its request.
transform_from_prompt(fs, inc) ==
    LET m == Merged(fs, inc) IN Envelope(m.resources, m.datas, m.ignored, inc)

-----------------------------------------------------------------------------
(* Inputs of transform_from_prompt *)

MaxUnits == 3

\* The scenario of the specification, as python-hcl2 shapes it.
DocScenario ==
    Document(<< [kind |-> S("resource"), type |-> S("aws_instance"), name |-> S("web"),
                 body |-> Dict(<< <<S("count"), Num(2)>>,
                                  <<S("ami"), Str(S("${data.aws_ami.x.id}"))>> >>)],
                [kind |-> S("resource"), type |-> S("azurerm_vm"), name |-> S("bad"),
                 body |-> Dict(<<>>)] >>, "split")

\* The same address again with another body, and data sources, three of them
\* with names outside ASCII.
DocSameAddress ==
    Document(<< [kind |-> S("resource"), type |-> S("aws_instance"), name |-> S("web"),
                 body |-> Dict(<< <<S("ami"), Str(S("ami-2"))>> >>)],
                [kind |-> S("data"), type |-> S("aws_ami"), name |-> S("x"),
                 body |-> Dict(<<>>)],
                [kind |-> S("data"), type |-> S("aws_ami"), name |-> AstralKey,
                 body |-> Dict(<<>>)],
                [kind |-> S("data"), type |-> S("aws_ami"), name |-> LoneKey,
                 body |-> Dict(<<>>)],
                [kind |-> S("data"), type |-> S("aws_ami"), name |-> PrivateKey,
                 body |-> Dict(<<>>)] >>, "bothseq")

\* Names b and a of one type, and other services, as a mapping.
DocMapping ==
    Document(<< [kind |-> S("resource"), type |-> S("aws_instance"), name |-> S("b"),
                 body |-> Dict(<<>>)],
                [kind |-> S("resource"), type |-> S("aws_s3_bucket"), name |-> S("logs"),
                 body |-> Dict(<< <<S("provider"), Str(S("google"))>> >>)],
                [kind |-> S("resource"), type |-> S("aws_instance"), name |-> S("a"),
                 body |-> Dict(<<>>)],
                [kind |-> S("data"), type |-> S("aws_iam_role"), name |-> S("r"),
                 body |-> Dict(<<>>)],
                [kind |-> S("resource"), type |-> S("aws_ami"), name |-> S("z"),
                 body |-> Dict(<<>>)] >>, "map")

DocEmpty == Dict(<<>>)

Units ==
    { [path |-> S("a.tf"), content |-> Parsed(DocScenario)],
      [path |-> S("b.tf"), content |-> Parsed(DocSameAddress)],
      [path |-> S("b.tf"), content |-> Parsed(DocMapping)],
      [path |-> <<>>, content |-> Parsed(DocEmpty)],
      [path |-> S("a.tf"), content |-> Unparsable(S("m1"))],
      [path |-> S("a.tf"), content |-> Unparsable(S("m2"))],
      [path |-> <<>>, content |-> Unparsable(S("m1"))] }

RECURSIVE UnitSeqs(_)
UnitSeqs(n) ==
    IF n = 0 THEN {<<>>}
    ELSE LET shorter == UnitSeqs(n - 1)
         IN  shorter \cup {Append(fs, f) : fs \in shorter, f \in {u \in Units : TRUE}}

Init ==
    /\ pc = "loop"
    /\ \E fs \in UnitSeqs(MaxUnits), inc \in BOOLEAN :
          /\ arg = [files |-> fs, include_ignored |-> inc]
          /\ files = fs
          /\ include_ignored = inc
    /\ ret = <<>>
    /\ all_resources = <<>> /\ all_datas = <<>> /\ all_ignored = <<>>
    /\ out = Null

\* A variant of the except branch that leaves the loop (break, or an
\* exception let through) instead of going on with the next unit.
ReadUnparsableUnit_abort ==
    /\ pc = "loop" /\ Len(files) > 0
    /\ ~Head(files).content.ok
    /\ all_ignored' =
          IF include_ignored THEN Append(all_ignored, FileItem(Head(files)))
          ELSE all_ignored
    /\ files' = <<>>
    /\ UNCHANGED <<pc, arg, ret, include_ignored, all_resources, all_datas, out>>

\* Lines 255-263: the parser raises on the next unit.
ReadUnparsableUnit ==
    /\ pc = "loop" /\ Len(files) > 0
    /\ ~Head(files).content.ok
    /\ all_ignored' =
          IF include_ignored THEN Append(all_ignored, FileItem(Head(files)))
          ELSE all_ignored
    /\ files' = Tail(files)
    /\ UNCHANGED <<pc, arg, ret, include_ignored, all_resources, all_datas, out>>

\* Lines 255-259, 264-267: the next unit parses and is collected.
ReadParsedUnit ==
    /\ pc = "loop" /\ Len(files) > 0
    /\ Head(files).content.ok
    /\ \E c \in {collect_from_doc(Head(files).content.doc, include_ignored)} :
           /\ all_resources' = all_resources \o c.resources
           /\ all_datas' = all_datas \o c.datas
           /\ all_ignored' = all_ignored \o c.ignored
    /\ files' = Tail(files)
    /\ UNCHANGED <<pc, arg, ret, include_ignored, out>>

\* Lines 269-277: the loop is over; organise, sort and return.
Organize ==
    /\ pc = "loop" /\ Len(files) = 0
    /\ all_ignored' = IF include_ignored THEN SortIgnored(all_ignored) ELSE all_ignored
    /\ out' = Envelope(all_resources, all_datas, all_ignored, include_ignored)
    /\ pc' = "done"
    /\ UNCHANGED <<arg, ret, files, include_ignored, all_resources, all_datas>>

Next == ReadUnparsableUnit \/ ReadParsedUnit \/ Organize

Spec == Init /\ [][Next]_vars

Done == pc = "done"

\* The orders in which the units of fs can be supplied.
Orders(fs) ==
    LET n == Len(fs)
    IN  { [i \in 1..n |-> fs[p[i]]] :
            p \in {f \in [1..n -> 1..n] : \A i, j \in 1..n : f[i] = f[j] => i = j} }

\* C1: the envelope does not depend on the order of the units: every order of
\* the same units gives the same services sequences and the same ignored
\* sequence, element for element.
C1_OrderIndependent ==
    Done => \A fs \in Orders(arg.files) :
                transform_from_prompt(fs, arg.include_ignored) = out

Sections == {"resources", "data_sources"}

\* C9: services has exactly the keys ec2, iam, rds, s3, vpc; the bucket of a
\* service holds the merged records of that service, each as many times as it
\* was merged, resources under resources and data sources under data_sources;
\* and every bucket sequence ascends by (type, name, address).
C9_Organized ==
    Done =>
        /\ DOMAIN out.services = {S("ec2"), S("iam"), S("rds"), S("s3"), S("vpc")}
        /\ \A k \in DOMAIN out.services :
              /\ DOMAIN out.services[k] = Sections
              /\ SameBag(out.services[k].resources,
                         SelectSeq(all_resources, LAMBDA r : r.service = k))
              /\ SameBag(out.services[k].data_sources,
                         SelectSeq(all_datas, LAMBDA r : r.service = k))
              /\ \A sec \in Sections :
                    \A i, j \in 1..Len(out.services[k][sec]) :
                        i < j => ~TupleLess(
                            <<out.services[k][sec][j].type, out.services[k][sec][j].name,
                              out.services[k][sec][j].address>>,
                            <<out.services[k][sec][i].type, out.services[k][sec][i].name,
                              out.services[k][sec][i].address>>)
        /\ Len(all_resources) =
              Len(out.services[S("ec2")].resources) + Len(out.services[S("iam")].resources)
              + Len(out.services[S("rds")].resources) + Len(out.services[S("s3")].resources)
              + Len(out.services[S("vpc")].resources)

\* Instances b and a of one type were merged in that order and are out as a
\* then b, after the record of a smaller type.
C9_Witness ==
    /\ Done
    /\ Len(all_resources) = 3
    /\ all_resources[1].address = S("aws_instance.b")
    /\ all_resources[2].address = S("aws_instance.a")
    /\ Len(out.services[S("ec2")].resources) = 3
    /\ out.services[S("ec2")].resources[1].address = S("aws_ami.z")
    /\ out.services[S("ec2")].resources[2].address = S("aws_instance.a")
    /\ out.services[S("ec2")].resources[3].address = S("aws_instance.b")
    /\ out.services[S("rds")].resources = <<>>

\* C9, second case: data sources whose names are outside ASCII are out in the
\* order of their code points.
C9_WitnessCodePoints ==
    /\ Done
    /\ Len(all_datas) = 4
    /\ all_datas[2].name = AstralKey /\ all_datas[3].name = LoneKey
    /\ all_datas[4].name = PrivateKey
    /\ Len(out.services[S("ec2")].data_sources) = 4
    /\ out.services[S("ec2")].data_sources[1].name = S("x")
    /\ out.services[S("ec2")].data_sources[2].name = LoneKey
    /\ out.services[S("ec2")].data_sources[3].name = PrivateKey
    /\ out.services[S("ec2")].data_sources[4].name = AstralKey

\* The file item a unit that does not parse is to leave in ignored.
ExpectedFileItem(f) ==
    [kind |-> S("file"), path |-> IF f.path = <<>> THEN S("<memory>") ELSE f.path,
     reason |-> S("parse_error"), message |-> f.content.message]

FileItemsExpected(failing) == [i \in 1..Len(failing) |-> ExpectedFileItem(failing[i])]

\* C8: units that do not parse do not stop the run: the services are those of
\* the run over the units that parse, alone; with diagnostics, ignored has one
\* item of kind file, reason parse_error, with the path and the message, for
\* each unit that does not parse, and no other item of kind file; without
\* diagnostics there is no ignored at all.
C8_ParseFailureIsolation ==
    Done =>
        /\ out.services =
              transform_from_prompt(SelectSeq(arg.files, LAMBDA f : f.content.ok),
                                    arg.include_ignored).services
        /\ arg.include_ignored =>
              SameBag(SelectSeq(out.ignored, LAMBDA x : x.kind = S("file")),
                      FileItemsExpected(SelectSeq(arg.files, LAMBDA f : ~f.content.ok)))
        /\ ~arg.include_ignored => "ignored" \notin DOMAIN out

\* With include_ignored, the list transform_from_prompt holds at its return is
\* the sorted list it put in the envelope.
IgnoredRebound == (Done /\ include_ignored) => all_ignored = out.ignored

\* A run where the sort changed the order of the list.
IgnoredReboundWitness ==
    /\ Done /\ include_ignored
    /\ Len(all_ignored) = 2
    /\ all_ignored[1].path = S("<memory>") /\ arg.files[1].path /= <<>>

\* A unit that does not parse came before one that does: the later unit's
\* record is out and the failure is in ignored.
C8_Witness ==
    /\ Done /\ arg.include_ignored
    /\ Len(arg.files) = 2
    /\ ~arg.files[1].content.ok /\ arg.files[2].content.ok
    /\ Len(out.services[S("ec2")].resources) = 1
    /\ \E i \in 1..Len(out.ignored) :
          out.ignored[i] = [kind |-> S("file"), path |-> S("<memory>"),
                            reason |-> S("parse_error"), message |-> S("m1")]

====
